---------------------------- MODULE Spec2Model ----------------------------
(***************************************************************************)
(* A model of the khmer-bot Telegram tutor (src/bot.py): the per-user mode *)
(* table USER_MODES, the per-user message counters USER_STATS, the user    *)
(* registry file users.json, the auto-detect heuristic, the reply chunker  *)
(* and the handlers that drive them.                                       *)
(*                                                                         *)
(* Text is a sequence of Unicode code points.  A message handed to the     *)
(* transport is a sequence too; in the handler model its elements are      *)
(* tokens that name the fixed string (or the AI reply) it stands for.      *)
(*                                                                         *)
(* Handlers are registered on an Application built without                 *)
(* concurrent_updates (src/bot.py:1147), so updates are handled one after  *)
(* the other: a handler is one action, which leaves in `last` the record   *)
(* of what it did, and next_update is the dispatcher taking the following  *)
(* update once the handler has returned.  A handler whose first test       *)
(* `if not update.message: return` fires changes nothing: that case is the *)
(* stuttering step, and every handler action below is the case in which    *)
(* update.message is present.                                              *)
(***************************************************************************)
EXTENDS Integers, Sequences, FiniteSets, TLC

VARIABLES
    USER_MODES,   \* dict chat_id -> mode            (src/bot.py:63)
    USER_STATS,   \* dict chat_id -> message count   (src/bot.py:65)
    users_file,   \* the registry file users.json    (src/bot.py:60)
    client,       \* TRUE iff the Groq client exists (src/bot.py:89-93)
    ADMIN_ID,     \* the administrator's chat id, or NoAdmin (src/bot.py:50-55)
    last,         \* the update just handled and what its handler did
    hpc,          \* "idle", or where a specification of one function is
    dText, dOut,  \* detect_mode_from_text: the text, the result
    cText, cOut,  \* send_long_message: the text, the messages sent
    saves,        \* the last two save_user_to_file calls
    inbox,        \* event loop: the updates sent and not yet dispatched
    task,         \* event loop: the handler coroutine in flight
    job,          \* event loop: the send_scheduled_alert run in flight
    lastrun,      \* event loop: the last broadcast or alert run that ended
    answered      \* event loop: the updates whose sender got a message

vars == <<USER_MODES, USER_STATS, users_file, client, ADMIN_ID, last,
          hpc, dText, dOut, cText, cOut, saves,
          inbox, task, job, lastrun, answered>>

\* what the environment configures before the program starts
config == <<client, ADMIN_ID>>

\* the variables of the specifications of single functions
harness == <<hpc, dText, dOut, cText, cOut, saves,
             inbox, task, job, lastrun, answered>>

\* the variables of the event loop specification
loopvars == <<inbox, task, job, lastrun, answered>>

-----------------------------------------------------------------------------
(* Bounds of the model *)

\* the chats that talk to the bot
Users == {1, 2}
\* a handler that counts a message is not taken beyond this count
MaxCount == 2
\* longest text given to detect_mode_from_text in SpecDetect
MaxTextLen == 2
\* send_long_message is given texts of up to MaxChunks * max_len + 2 characters
MaxChunks == 3
\* longest array found in users.json when the registry is first read
MaxFileLen == 3
\* the registry a broadcast or an alert runs over holds identifiers
\* 1..MaxRecipients
MaxRecipients == 3

-----------------------------------------------------------------------------
(* Python dictionaries and small helpers *)

Get(d, k, default) == IF k \in DOMAIN d THEN d[k] ELSE default

Put(d, k, v) == [x \in (DOMAIN d) \cup {k} |-> IF x = k THEN v ELSE d[x]]

SetDefault(d, k, v) == IF k \in DOMAIN d THEN d ELSE Put(d, k, v)

EmptyDict == [x \in {} |-> 0]

Range(s) == {s[i] : i \in 1..Len(s)}

Min(a, b) == IF a <= b THEN a ELSE b

RECURSIVE SetToSeq(_)
\* list(users): the elements of a set, each once.  Python fixes no order;
\* load_users turns the array back into a set, so the order is never read.
SetToSeq(S) ==
    IF S = {} THEN <<>>
    ELSE LET m == CHOOSE x \in S : \A y \in S : x <= y
         IN  <<m>> \o SetToSeq(S \ {m})

-----------------------------------------------------------------------------
(* Characters *)

\* str.isalpha() on the code points the model uses
IsAlpha(c) ==
    \/ c \in 65..90
    \/ c \in 97..122
    \/ c \in 192..214 \/ c \in 216..246 \/ c \in 248..255
    \/ c \in 6016..6067
    \/ c \in 12353..12438
    \/ c \in 19968..40959
    \/ c = 40960

\* str.lower() on one character: A-Z and the Latin-1 capitals have a
\* lower-case form 32 above; the other code points of the model have none
Lower(c) ==
    IF c \in 65..90 \/ c \in 192..214 \/ c \in 216..222 THEN c + 32 ELSE c

LowerStr(s) == [i \in 1..Len(s) |-> Lower(s[i])]

RECURSIVE Join(_)
\* " ".join(context.args)
Join(args) ==
    IF args = <<>> THEN <<>>
    ELSE IF Len(args) = 1 THEN args[1]
    ELSE args[1] \o <<32>> \o Join(Tail(args))

-----------------------------------------------------------------------------
(* detect_mode_from_text, src/bot.py:364-383 *)

has_khmer(text) == \E i \in 1..Len(text) : 6016 <= text[i] /\ text[i] <= 6143

has_cjk(text) == \E i \in 1..Len(text) : 19968 <= text[i] /\ text[i] <= 40959

has_latin(text) ==
    \E i \in 1..Len(text) :
        IsAlpha(text[i]) /\ 97 <= Lower(text[i]) /\ Lower(text[i]) <= 122

\* a plausible slip: the CJK signal left out of both tests
detect_mode_from_text_no_cjk(text) ==
    IF has_khmer(text) /\ ~has_latin(text) THEN "learner"
    ELSE IF has_latin(text) /\ ~has_khmer(text) THEN "foreigner"
    ELSE "learner"

detect_mode_from_text(text) ==
    IF has_khmer(text) /\ ~(has_latin(text) \/ has_cjk(text)) THEN "learner"
    ELSE IF (has_latin(text) \/ has_cjk(text)) /\ ~has_khmer(text) THEN "foreigner"
    ELSE "learner"

-----------------------------------------------------------------------------
(* send_long_message, src/bot.py:431-443 *)

max_len == 4000

RECURSIVE ChunksFrom(_, _)
\* for i in range(0, len(text), max_len): reply_text(text[i : i + max_len])
ChunksFrom(text, i) ==
    IF i >= Len(text) THEN <<>>
    ELSE <<SubSeq(text, i + 1, Min(i + max_len, Len(text)))>>
           \o ChunksFrom(text, i + max_len)

RECURSIVE ChunksFromShort(_, _)
\* a plausible slip: the slice one character short of the stride
ChunksFromShort(text, i) ==
    IF i >= Len(text) THEN <<>>
    ELSE <<SubSeq(text, i + 1, Min(i + max_len - 1, Len(text)))>>
           \o ChunksFromShort(text, i + max_len)

send_long_message_short(hasMsg, text) ==
    IF ~hasMsg \/ text = <<>> THEN <<>>
    ELSE IF Len(text) <= max_len THEN <<text>>
    ELSE ChunksFromShort(text, 0)

\* the messages send_long_message hands to reply_text, in order
send_long_message(hasMsg, text) ==
    IF ~hasMsg \/ text = <<>> THEN <<>>
    ELSE IF Len(text) <= max_len THEN <<text>>
    ELSE ChunksFrom(text, 0)

-----------------------------------------------------------------------------
(* The administrator, src/bot.py:50-55 and 308-310 *)

\* ADMIN_ID = None: the variable is not set or int() rejected it
NoAdmin == 0

\* a plausible slip: with no administrator configured, everyone passes
is_admin_unset_allows(chat_id) == ADMIN_ID = NoAdmin \/ chat_id = ADMIN_ID

is_admin(chat_id) == ADMIN_ID # NoAdmin /\ chat_id = ADMIN_ID

-----------------------------------------------------------------------------
(* The user registry, src/bot.py:313-335 *)

\* users.json: absent, unparsable, or a JSON array of identifiers
FileAbsent == [state |-> "absent", data |-> <<>>]
FileCorrupt == [state |-> "corrupt", data |-> <<>>]
FileOf(seq) == [state |-> "ok", data |-> seq]

\* the set the file holds for a reader that can read it
PersistedSet(file) == IF file.state = "ok" THEN Range(file.data) ELSE {}

\* a plausible slip: an array that repeats an identifier taken for a
\* damaged file
load_users_rejects_repeats(file, readOk) ==
    IF file.state = "ok" /\ readOk
          /\ Cardinality(Range(file.data)) = Len(file.data)
    THEN Range(file.data)
    ELSE {}

\* readOk = FALSE: open(), json.load() or int() raises; the except clause
\* turns every such exception into the empty set
load_users(file, readOk) ==
    IF file.state = "absent" THEN {}
    ELSE IF file.state = "ok" /\ readOk THEN Range(file.data)
    ELSE {}

\* outcomes of the write: "ok"; "open_fail": open(USERS_FILE, "w") raises and
\* the file is untouched; "dump_fail": the file was opened, hence truncated,
\* and json.dump or the close raises
WriteOutcomes == {"ok", "open_fail", "dump_fail"}

\* a plausible slip: the membership test dropped, the file rewritten each time
save_user_always_writes(file, chat_id, readOk, wr) ==
    LET users == load_users(file, readOk) IN
    [wrote |-> TRUE, failed |-> wr # "ok",
     file  |-> IF wr = "ok" THEN FileOf(SetToSeq(users \cup {chat_id}))
               ELSE IF wr = "open_fail" THEN file
               ELSE FileCorrupt]

\* save_user_to_file: the file afterwards, whether the write branch ran,
\* and whether the write raised (the exception is logged and dropped)
save_user_to_file(file, chat_id, readOk, wr) ==
    LET users == load_users(file, readOk) IN
    IF chat_id \in users
    THEN [wrote |-> FALSE, failed |-> FALSE, file |-> file]
    ELSE [wrote |-> TRUE, failed |-> wr # "ok",
          file  |-> IF wr = "ok" THEN FileOf(SetToSeq(users \cup {chat_id}))
                    ELSE IF wr = "open_fail" THEN file
                    ELSE FileCorrupt]

-----------------------------------------------------------------------------
(* Strings of the program *)

\* the names mode_command compares its argument with, src/bot.py:621-651
W_learner == <<108, 101, 97, 114, 110, 101, 114>>
W_khmer == <<107, 104, 109, 101, 114>>
W_student == <<115, 116, 117, 100, 101, 110, 116>>
W_foreigner == <<102, 111, 114, 101, 105, 103, 110, 101, 114>>
W_en == <<101, 110>>
W_eng == <<101, 110, 103>>
W_english == <<101, 110, 103, 108, 105, 115, 104>>
W_korean == <<107, 111, 114, 101, 97, 110>>
W_kr == <<107, 114>>
W_japanese == <<106, 97, 112, 97, 110, 101, 115, 101>>
W_jp == <<106, 112>>
W_filipino == <<102, 105, 108, 105, 112, 105, 110, 111>>
W_tagalog == <<116, 97, 103, 97, 108, 111, 103>>
W_ph == <<112, 104>>
W_auto == <<97, 117, 116, 111>>
W_detect == <<100, 101, 116, 101, 99, 116>>

\* the labels of the reply keyboard, src/bot.py:342-358 and 1031-1103
BTN_LEARNER == <<127472, 127469, 32, 8594, 32, 127482, 127480, 127464, 127475,
                 32, 40, 76, 101, 97, 114, 110, 101, 114, 41>>
BTN_FOREIGNER == <<127482, 127480, 47, 127464, 127475, 32, 8594, 32, 127472,
                   127469, 32, 40, 70, 111, 114, 101, 105, 103, 110, 101, 114, 41>>
BTN_KOREAN == <<127472, 127469, 32, 8594, 32, 127472, 127479, 32, 40, 75, 111,
                114, 101, 97, 110, 41>>
BTN_JAPANESE == <<127472, 127469, 32, 8594, 32, 127471, 127477, 32, 40, 74, 97,
                  112, 97, 110, 101, 115, 101, 41>>
BTN_FILIPINO == <<127472, 127469, 32, 8594, 32, 127477, 127469, 32, 40, 70, 105,
                  108, 105, 112, 105, 110, 111, 41>>
BTN_GRAMMAR == <<9999, 65039, 32, 71, 114, 97, 109, 109, 97, 114, 32, 84, 111,
                 111, 108, 115>>
BTN_OCR == <<128444, 32, 83, 99, 114, 101, 101, 110, 115, 104, 111, 116, 32,
             79, 67, 82>>
BTN_FEEDBACK == <<128233, 32, 70, 101, 101, 100, 98, 97, 99, 107>>
BTN_HELP == <<8505, 65039, 32, 72, 101, 108, 112, 32, 47, 32, 71, 117, 105,
              100, 101>>

\* a fixed outbound string, named by a token
Msg(token) == <<token>>

-----------------------------------------------------------------------------
(* Inputs of the handler model *)

\* messages typed by a user: Khmer, Latin, Khmer with Latin, and a keyboard
\* label with one character added
FreeTexts == { <<6047>>, <<72, 105>>, <<6047, 72>>, BTN_FEEDBACK \o <<33>> }

Buttons ==
    { BTN_LEARNER, BTN_FOREIGNER, BTN_KOREAN, BTN_JAPANESE, BTN_FILIPINO,
      BTN_GRAMMAR, BTN_OCR, BTN_FEEDBACK, BTN_HELP }

MsgTexts == FreeTexts \cup Buttons

\* context.args of /mode: none, each recognised name, "KR", the unrecognised
\* "chinese" and "learners", a recognised name followed by a second word
ModeArgs ==
    { <<>> }
    \cup { <<w>> : w \in { W_learner, W_khmer, W_student, W_foreigner, W_en,
                           W_eng, W_english, W_korean, W_kr, W_japanese, W_jp,
                           W_filipino, W_tagalog, W_ph, W_auto, W_detect } }
    \cup { << <<75, 82>> >> }
    \cup { << <<99, 104, 105, 110, 101, 115, 101>> >>,
           << <<108, 101, 97, 114, 110, 101, 114, 115>> >> }
    \cup { <<W_foreigner, W_korean>> }

\* context.args of /ko, /ja, /ph
QuickArgs == { <<>>, << <<6047>> >>, << <<72, 105>>, <<6047>> >> }

\* what the vision model returns as message.content
\* nothing, white space, Khmer inside white space, CJK
OcrTexts == { <<>>, <<32, 10>>, <<32, 6047, 10>>, <<20320, 22909>> }

\* context.args of the grammar commands, /explain, /feedback and
\* /broadcast: none, or two words
CmdArgs == { <<>>, << <<72, 105>>, <<6047>> >> }

\* the chat completion: content, no content, an exception
GwOutcomes == {"ok", "empty", "error"}

\* the outcomes a call can have: without a client no request is made
GwFor(cl) == IF cl THEN GwOutcomes ELSE {"not_called"}

\* the outcomes of one save_user_to_file call over every way the read and
\* the write can go
SaveResults(file, chat_id) ==
    { save_user_to_file(file, chat_id, readOk, wr) :
        readOk \in BOOLEAN, wr \in WriteOutcomes }

-----------------------------------------------------------------------------
(* Prompt selection and the gateway, src/bot.py:386-428 *)

\* a plausible slip: the try/except missing, the exception of the request
\* leaves the function
chat_with_system_prompt_uncaught(cl, system_prompt, gw) ==
    IF ~cl THEN [reply |-> Msg("missing_api_key"), calls |-> <<>>,
                 outcomes |-> <<>>, raised |-> FALSE]
    ELSE [reply |-> IF gw = "ok" THEN Msg("ai_content") ELSE <<>>,
          calls |-> <<system_prompt>>, outcomes |-> <<gw>>,
          raised |-> gw = "error"]

\* chat_with_system_prompt: the reply, the prompts sent to Groq, how each
\* request ended, and whether an exception leaves the function (the
\* except clause at src/bot.py:402-404 returns a string instead)
chat_with_system_prompt(cl, system_prompt, gw) ==
    IF ~cl THEN [reply |-> Msg("missing_api_key"), calls |-> <<>>,
                 outcomes |-> <<>>, raised |-> FALSE]
    ELSE [reply |-> IF gw = "ok" THEN Msg("ai_content")
                    ELSE IF gw = "empty" THEN <<>>
                    ELSE Msg("error_connecting"),
          calls |-> <<system_prompt>>, outcomes |-> <<gw>>,
          raised |-> FALSE]

\* a plausible slip: the foreigner branch missing from the chain
prompt_for_no_foreigner(mode) ==
    IF mode = "korean" THEN "PROMPT_KOREAN_LEARNER"
    ELSE IF mode = "japanese" THEN "PROMPT_JAPANESE_LEARNER"
    ELSE IF mode = "filipino" THEN "PROMPT_FILIPINO_LEARNER"
    ELSE "PROMPT_KHMER_LEARNER"

\* the if/elif chain of get_ai_response, src/bot.py:415-425
prompt_for(mode) ==
    IF mode = "foreigner" THEN "PROMPT_FOREIGNER"
    ELSE IF mode = "korean" THEN "PROMPT_KOREAN_LEARNER"
    ELSE IF mode = "japanese" THEN "PROMPT_JAPANESE_LEARNER"
    ELSE IF mode = "filipino" THEN "PROMPT_FILIPINO_LEARNER"
    ELSE "PROMPT_KHMER_LEARNER"

\* a plausible slip: the heuristic run on every message, stored each time
resolve_mode_redetect(modes, chat_id, user_text) ==
    LET mode == detect_mode_from_text(user_text) IN
    [modes |-> Put(modes, chat_id, mode), mode |-> mode, detected |-> TRUE]

\* a plausible slip: the detected mode used but never stored
resolve_mode_no_store(modes, chat_id, user_text) ==
    LET stored == Get(modes, chat_id, "auto")
        auto   == stored = "auto"
    IN  [modes |-> modes,
         mode |-> IF auto THEN detect_mode_from_text(user_text) ELSE stored,
         detected |-> auto]

\* get_ai_response up to the prompt choice, src/bot.py:409-413: the mode
\* used, the table afterwards, and whether the heuristic ran
resolve_mode(modes, chat_id, user_text) ==
    LET stored == Get(modes, chat_id, "auto")
        auto   == stored = "auto"
        mode   == IF auto THEN detect_mode_from_text(user_text) ELSE stored
    IN  [modes |-> IF auto THEN Put(modes, chat_id, mode) ELSE modes,
         mode |-> mode,
         detected |-> auto]

\* a plausible slip: the detected mode stored only once Groq has answered
get_ai_response_store_on_success(modes, cl, chat_id, user_text, gw) ==
    LET r == resolve_mode(modes, chat_id, user_text)
        c == chat_with_system_prompt(cl, prompt_for(r.mode), gw)
    IN  [modes |-> IF cl /\ gw # "error" THEN r.modes ELSE modes,
         mode |-> r.mode, detected |-> r.detected,
         prompt |-> prompt_for(r.mode), reply |-> c.reply, calls |-> c.calls,
         outcomes |-> c.outcomes, raised |-> c.raised]

\* get_ai_response, src/bot.py:407-428
get_ai_response(modes, cl, chat_id, user_text, gw) ==
    LET r == resolve_mode(modes, chat_id, user_text)
        c == chat_with_system_prompt(cl, prompt_for(r.mode), gw)
    IN  [modes |-> r.modes, mode |-> r.mode, detected |-> r.detected,
         prompt |-> prompt_for(r.mode), reply |-> c.reply, calls |-> c.calls,
         outcomes |-> c.outcomes, raised |-> c.raised]

-----------------------------------------------------------------------------
(* The event record *)

\* op, user: the handler and the chat; count0: the chat's counter when the
\* update arrived, -1 when it had none; used, detected, prompt: the mode
\* get_ai_response settled on, whether it ran the heuristic, the template
\* it chose; det: what the heuristic answers on the text that was resolved;
\* calls: the requests sent to Groq, each named by its template, and
\* outcomes: how each one ended; sent: the messages sent to the chat, in
\* order; args: context.args of a command; save: "none" when the handler did
\* not call save_user_to_file, else "kept" (no write), "ok" or "failed" (the
\* write raised); attempts: the send_message calls to other chats, each with
\* its recipient and whether it succeeded; report: the <<sent, failed>>
\* counts of a broadcast; escaped: an exception left the handler; loaded:
\* the set load_users gave a broadcast, an alert or /stats; direct: the
\* reply_text calls the handler made itself, and chunked: its calls of
\* send_long_message
NoEvent ==
    [op |-> "none", user |-> 0, count0 |-> -1, used |-> "none",
     detected |-> FALSE, det |-> "none", prompt |-> "none", calls |-> <<>>,
     sent |-> <<>>, args |-> <<>>, outcomes |-> <<>>, save |-> "none",
     attempts |-> <<>>, report |-> <<>>, escaped |-> FALSE, loaded |-> {},
     direct |-> 0, chunked |-> 0]

\* an event that resolved no mode and called no gateway: each message it
\* sent to the chat went out through update.message.reply_text
Event(op, u, sent) ==
    [NoEvent EXCEPT !.op = op, !.user = u, !.sent = sent,
                    !.count0 = Get(USER_STATS, u, -1),
                    !.direct = Len(sent)]

\* an event that went through get_ai_response on the text t
Resolved(op, u, t, r, sent) ==
    [Event(op, u, IF r.raised THEN <<>> ELSE sent)
       EXCEPT !.used = r.mode, !.detected = r.detected,
              !.det = detect_mode_from_text(t), !.prompt = r.prompt,
              !.calls = r.calls, !.outcomes = r.outcomes,
              !.escaped = r.raised,
              !.direct = 0, !.chunked = IF r.raised THEN 0 ELSE 1]

\* how a save_user_to_file call went, as the event record keeps it
SaveTag(sv) ==
    IF ~sv.wrote THEN "kept" ELSE IF sv.failed THEN "failed" ELSE "ok"

\* no update is being handled
Idle == last = NoEvent

\* run_polling, src/bot.py:1201: the handler has returned and the
\* dispatcher takes the next update
next_update ==
    /\ last # NoEvent
    /\ last' = NoEvent
    /\ UNCHANGED <<USER_MODES, USER_STATS, users_file, config, harness>>

\* a coroutine of the event loop.  pc: the await it is suspended at, or the
\* synchronous call it is inside; user, kind: the update it handles; loaded:
\* what load_users returned to it; file0: users.json as that load_users call
\* found it; todo, attempts: the recipients its loop has still to reach and
\* the send_message calls it has made; reply: the text it is about to send
NoTask ==
    [pc |-> "none", user |-> 0, kind |-> "none", loaded |-> {},
     file0 |-> FileAbsent, todo |-> <<>>, attempts |-> <<>>, reply |-> <<>>]

\* a finished run: what load_users gave it, the send_message calls it made,
\* and users.json as it was when the run loaded it and when the run ended
NoRun ==
    [kind |-> "none", loaded |-> {}, attempts |-> <<>>, file0 |-> FileAbsent,
     file_end |-> FileAbsent]

\* the event loop specification is not running
LoopIdle ==
    /\ inbox = {} /\ task = NoTask /\ job = NoTask
    /\ lastrun = NoRun /\ answered = {}

\* the specifications of single functions are not running
HarnessIdle ==
    /\ hpc = "idle"
    /\ dText = <<>> /\ dOut = "none"
    /\ cText = <<>> /\ cOut = <<>>
    /\ saves = <<>>
    /\ LoopIdle

-----------------------------------------------------------------------------
(* Handlers *)

\* a plausible slip: USER_MODES[chat_id] = "auto" in place of setdefault
start_assigns_auto(u) ==
    /\ Idle
    /\ \E sv \in SaveResults(users_file, u) :
          /\ users_file' = sv.file
          /\ last' = [Event("start", u, <<Msg("welcome")>>)
                        EXCEPT !.save = SaveTag(sv)]
    /\ USER_MODES' = Put(USER_MODES, u, "auto")
    /\ UNCHANGED <<USER_STATS, config, harness>>

\* start, src/bot.py:470-501
start(u) ==
    /\ Idle
    /\ \E sv \in SaveResults(users_file, u) :
          /\ users_file' = sv.file
          /\ last' = [Event("start", u, <<Msg("welcome")>>)
                        EXCEPT !.save = SaveTag(sv)]
    /\ USER_MODES' = SetDefault(USER_MODES, u, "auto")
    /\ UNCHANGED <<USER_STATS, config, harness>>

\* a plausible slip: an unrecognised name falls back to auto-detect
mode_for_arg_default_auto(arg) ==
    IF arg \in {W_learner, W_khmer, W_student} THEN "learner"
    ELSE IF arg \in {W_foreigner, W_en, W_eng, W_english} THEN "foreigner"
    ELSE IF arg \in {W_korean, W_kr} THEN "korean"
    ELSE IF arg \in {W_japanese, W_jp} THEN "japanese"
    ELSE IF arg \in {W_filipino, W_tagalog, W_ph} THEN "filipino"
    ELSE "auto"

\* a plausible slip: the argument itself stored for the short names
mode_for_arg_keeps_alias(arg) ==
    IF arg \in {W_learner, W_khmer, W_student} THEN "learner"
    ELSE IF arg \in {W_foreigner, W_en, W_eng, W_english} THEN "foreigner"
    ELSE IF arg = W_korean THEN "korean"
    ELSE IF arg = W_kr THEN "kr"
    ELSE IF arg = W_japanese THEN "japanese"
    ELSE IF arg = W_jp THEN "jp"
    ELSE IF arg \in {W_filipino, W_tagalog} THEN "filipino"
    ELSE IF arg = W_ph THEN "ph"
    ELSE IF arg \in {W_auto, W_detect} THEN "auto"
    ELSE "unknown"

\* the if/elif chain of mode_command, src/bot.py:621-661: the mode the
\* argument names, "unknown" for the else branch
mode_for_arg(arg) ==
    IF arg \in {W_learner, W_khmer, W_student} THEN "learner"
    ELSE IF arg \in {W_foreigner, W_en, W_eng, W_english} THEN "foreigner"
    ELSE IF arg \in {W_korean, W_kr} THEN "korean"
    ELSE IF arg \in {W_japanese, W_jp} THEN "japanese"
    ELSE IF arg \in {W_filipino, W_tagalog, W_ph} THEN "filipino"
    ELSE IF arg \in {W_auto, W_detect} THEN "auto"
    ELSE "unknown"

\* the record of a /mode update: context.args is kept with what was sent
ModeEvent(u, args, sent) == [Event("mode", u, sent) EXCEPT !.args = args]

\* mode_command, src/bot.py:598-661
mode_command(u, args) ==
    /\ Idle
    /\ IF args = <<>>
       THEN /\ last' = ModeEvent(u, args, <<Msg("current_mode")>>)
            /\ UNCHANGED USER_MODES
       ELSE LET m == mode_for_arg(LowerStr(args[1])) IN
            IF m = "unknown"
            THEN /\ last' = ModeEvent(u, args, <<Msg("unknown_mode")>>)
                 /\ UNCHANGED USER_MODES
            ELSE /\ USER_MODES' = Put(USER_MODES, u, m)
                 /\ last' = ModeEvent(u, args, <<Msg("mode_changed")>>)
    /\ UNCHANGED <<USER_STATS, users_file, config, harness>>

\* a plausible slip: the counter left as it was
reset_modes_only(u) ==
    /\ Idle
    /\ USER_MODES' = Put(USER_MODES, u, "auto")
    /\ last' = Event("reset", u, <<Msg("reset_complete")>>)
    /\ UNCHANGED <<USER_STATS, users_file, config, harness>>

\* a plausible slip: both tables cleared instead of the chat's entries
reset_clears_tables(u) ==
    /\ Idle
    /\ USER_MODES' = Put(EmptyDict, u, "auto")
    /\ USER_STATS' = Put(EmptyDict, u, 0)
    /\ last' = Event("reset", u, <<Msg("reset_complete")>>)
    /\ UNCHANGED <<users_file, config, harness>>

\* reset_command, src/bot.py:687-702
reset_command(u) ==
    /\ Idle
    /\ USER_MODES' = Put(USER_MODES, u, "auto")
    /\ USER_STATS' = Put(USER_STATS, u, 0)
    /\ last' = Event("reset", u, <<Msg("reset_complete")>>)
    /\ UNCHANGED <<users_file, config, harness>>

\* a plausible slip: the reply sent with reply_text, whatever its length
Prompted_replies_directly(op, u, args, notice, system_prompt, gw) ==
    LET c == chat_with_system_prompt(client, system_prompt, gw) IN
    [Event(op, u, notice \o (IF c.reply = <<>> THEN <<>> ELSE <<c.reply>>))
       EXCEPT !.args = args, !.prompt = system_prompt, !.calls = c.calls,
              !.outcomes = c.outcomes, !.escaped = c.raised]

\* the record of a command that sent the progress notice, called
\* chat_with_system_prompt with its own template and handed the reply to
\* send_long_message
Prompted(op, u, args, notice, system_prompt, gw) ==
    LET c == chat_with_system_prompt(client, system_prompt, gw) IN
    [Event(op, u, notice \o (IF c.raised THEN <<>>
                             ELSE send_long_message(TRUE, c.reply)))
       EXCEPT !.args = args, !.prompt = system_prompt, !.calls = c.calls,
              !.outcomes = c.outcomes, !.escaped = c.raised,
              !.direct = Len(notice), !.chunked = IF c.raised THEN 0 ELSE 1]

\* the body shared by ko_command, ja_command and ph_command
quick_translate(op, u, system_prompt, args) ==
    LET text == Join(args) IN
        /\ Idle
        /\ IF text = <<>>
           THEN last' = Event(op, u, <<Msg("usage")>>)
           ELSE \E gw \in GwFor(client) :
                  last' = Prompted(op, u, args, <<Msg("translating")>>,
                                   system_prompt, gw)
        /\ UNCHANGED <<USER_MODES, USER_STATS, users_file, config, harness>>

\* ko_command, src/bot.py:859-874
ko_command(u, args) == quick_translate("ko", u, "PROMPT_KOREAN_LEARNER", args)

\* ja_command, src/bot.py:877-892
ja_command(u, args) == quick_translate("ja", u, "PROMPT_JAPANESE_LEARNER", args)

\* ph_command, src/bot.py:895-910
ph_command(u, args) == quick_translate("ph", u, "PROMPT_FILIPINO_LEARNER", args)

\* a plausible slip: the test for an empty argument missing
own_template_no_check(op, u, system_prompt, args) ==
    /\ Idle
    /\ \E gw \in GwFor(client) :
          last' = Prompted(op, u, args, <<Msg("checking")>>, system_prompt, gw)
    /\ UNCHANGED <<USER_MODES, USER_STATS, users_file, config, harness>>

\* the body shared by the grammar commands and explain_command
own_template(op, u, system_prompt, args) ==
    /\ Idle
    /\ IF Join(args) = <<>>
       THEN last' = Event(op, u, <<Msg("usage")>>)
       ELSE \E gw \in GwFor(client) :
              last' = Prompted(op, u, args, <<Msg("checking")>>,
                               system_prompt, gw)
    /\ UNCHANGED <<USER_MODES, USER_STATS, users_file, config, harness>>

\* kmgrammar_command, src/bot.py:786-801
kmgrammar_command(u, args) ==
    own_template("kmgrammar", u, "PROMPT_KM_GRAMMAR", args)

\* enggrammar_command, src/bot.py:804-819
enggrammar_command(u, args) ==
    own_template("enggrammar", u, "PROMPT_EN_GRAMMAR", args)

\* cngrammar_command, src/bot.py:822-837
cngrammar_command(u, args) ==
    own_template("cngrammar", u, "PROMPT_CN_GRAMMAR", args)

\* a plausible slip: /explain answered through get_ai_response, like a
\* plain message
explain_through_mode(u, args) ==
    /\ Idle
    /\ IF Join(args) = <<>>
       THEN /\ last' = Event("explain", u, <<Msg("usage")>>)
            /\ UNCHANGED USER_MODES
       ELSE \E gw \in GwFor(client) :
              LET r == get_ai_response(USER_MODES, client, u, Join(args), gw) IN
              /\ USER_MODES' = r.modes
              /\ last' = [Resolved("explain", u, Join(args), r,
                                   <<Msg("checking")>>
                                     \o send_long_message(TRUE, r.reply))
                            EXCEPT !.args = args]
    /\ UNCHANGED <<USER_STATS, users_file, config, harness>>

\* explain_command, src/bot.py:840-856
explain_command(u, args) ==
    own_template("explain", u, "PROMPT_EXPLAIN", args)

\* feedback_command, src/bot.py:570-595.  ok: whether the send_message to
\* the administrator succeeds
feedback_command(u, args) ==
    /\ Idle
    /\ IF Join(args) = <<>>
       THEN last' = Event("feedback", u, <<Msg("usage")>>)
       ELSE IF ADMIN_ID = NoAdmin
       THEN last' = [Event("feedback", u, <<Msg("admin_not_set")>>)
                       EXCEPT !.args = args]
       ELSE \E ok \in BOOLEAN :
              last' = [Event("feedback", u,
                             IF ok THEN <<Msg("feedback_sent")>>
                             ELSE <<Msg("feedback_failed")>>)
                         EXCEPT !.args = args,
                                !.attempts = <<[to |-> ADMIN_ID, ok |-> ok]>>]
    /\ UNCHANGED <<USER_MODES, USER_STATS, users_file, config, harness>>

\* the accumulators of the broadcast loop before its first turn
NoDelivery == [attempts |-> <<>>, sent |-> 0, failed |-> 0, escaped |-> FALSE]

RECURSIVE broadcast_loop_stops(_, _, _)
\* a plausible slip: the try/except around the whole loop, so the first
\* failed send ends the run
broadcast_loop_stops(uids, ok, acc) ==
    IF uids = <<>> THEN acc
    ELSE LET uid == Head(uids)
             att == Append(acc.attempts, [to |-> uid, ok |-> ok[uid]])
         IN  IF ok[uid]
             THEN broadcast_loop_stops(Tail(uids), ok,
                      [acc EXCEPT !.attempts = att, !.sent = acc.sent + 1])
             ELSE [acc EXCEPT !.attempts = att, !.failed = acc.failed + 1]

RECURSIVE broadcast_loop_counts_early(_, _, _)
\* a plausible slip: sent counted before the send is tried
broadcast_loop_counts_early(uids, ok, acc) ==
    IF uids = <<>> THEN acc
    ELSE LET uid == Head(uids) IN
         broadcast_loop_counts_early(Tail(uids), ok,
             [acc EXCEPT
                !.attempts = Append(acc.attempts, [to |-> uid, ok |-> ok[uid]]),
                !.sent = acc.sent + 1,
                !.failed = IF ok[uid] THEN acc.failed ELSE acc.failed + 1])

RECURSIVE broadcast_loop(_, _, _)
\* the loop of broadcast, src/bot.py:726-733: uids in the order the set is
\* iterated, ok[uid] whether send_message to uid succeeds; the except
\* clause keeps every exception of a send inside its turn of the loop
broadcast_loop(uids, ok, acc) ==
    IF uids = <<>> THEN acc
    ELSE LET uid == Head(uids) IN
         broadcast_loop(Tail(uids), ok,
             [acc EXCEPT
                !.attempts = Append(acc.attempts, [to |-> uid, ok |-> ok[uid]]),
                !.sent = IF ok[uid] THEN acc.sent + 1 ELSE acc.sent,
                !.failed = IF ok[uid] THEN acc.failed ELSE acc.failed + 1])

\* the record of a run over the registry: the set loaded, the attempts made
Run(e, args, users, r) ==
    [e EXCEPT !.args = args, !.loaded = users, !.attempts = r.attempts,
              !.escaped = r.escaped]

\* broadcast, src/bot.py:705-737.  readOk: whether users.json can be read
\* and parsed; ok: which recipients' send_message succeeds
broadcast(u, args) ==
    /\ Idle
    /\ IF ~is_admin(u)
       THEN last' = [Event("broadcast", u, <<>>) EXCEPT !.args = args]
       ELSE IF Join(args) = <<>>
       THEN last' = Event("broadcast", u, <<Msg("usage")>>)
       ELSE \E readOk \in BOOLEAN :
            LET users == load_users(users_file, readOk) IN
            \E ok \in [users -> BOOLEAN] :
               LET r == broadcast_loop(SetToSeq(users), ok, NoDelivery) IN
               last' = [Run(Event("broadcast", u,
                                  IF r.escaped THEN <<>>
                                  ELSE <<Msg("broadcast_report")>>),
                            args, users, r)
                          EXCEPT !.report = <<r.sent, r.failed>>]
    /\ UNCHANGED <<USER_MODES, USER_STATS, users_file, config, harness>>

RECURSIVE alert_loop(_, _, _)
\* the loop of send_scheduled_alert, src/bot.py:457-462
alert_loop(uids, ok, acc) ==
    IF uids = <<>> THEN acc
    ELSE LET uid == Head(uids) IN
         alert_loop(Tail(uids), ok,
             [acc EXCEPT
                !.attempts = Append(acc.attempts, [to |-> uid, ok |-> ok[uid]])])

\* send_scheduled_alert, src/bot.py:451-462: a job of the queue, run
\* between two updates; it belongs to no chat
send_scheduled_alert ==
    /\ Idle
    /\ \E readOk \in BOOLEAN :
         LET users == load_users(users_file, readOk) IN
         \E ok \in [users -> BOOLEAN] :
            last' = Run(Event("alert", 0, <<>>), <<>>, users,
                        alert_loop(SetToSeq(users), ok, NoDelivery))
    /\ UNCHANGED <<USER_MODES, USER_STATS, users_file, config, harness>>

RECURSIVE SumValues(_)
\* sum(USER_STATS.values())
SumValues(d) ==
    IF DOMAIN d = {} THEN 0
    ELSE LET k == CHOOSE x \in DOMAIN d : TRUE IN
         d[k] + SumValues([x \in DOMAIN d \ {k} |-> d[x]])

\* stats_command, src/bot.py:740-778; report: registered users, chats in
\* USER_MODES, messages counted
stats_command(u) ==
    /\ Idle
    /\ IF ~is_admin(u)
       THEN last' = Event("stats", u, <<>>)
       ELSE \E readOk \in BOOLEAN :
            LET users == load_users(users_file, readOk) IN
            last' = [Event("stats", u, <<Msg("stats")>>)
                       EXCEPT !.loaded = users,
                              !.report = <<Cardinality(users),
                                           Cardinality(DOMAIN USER_MODES),
                                           SumValues(USER_STATS)>>]
    /\ UNCHANGED <<USER_MODES, USER_STATS, users_file, config, harness>>

\* a plausible slip: the Japanese branch pasted from the Korean one with
\* its mode left as it was
button_mode_pasted(text) ==
    IF text = BTN_LEARNER THEN "learner"
    ELSE IF text = BTN_FOREIGNER THEN "foreigner"
    ELSE IF text = BTN_KOREAN THEN "korean"
    ELSE IF text = BTN_JAPANESE THEN "korean"
    ELSE IF text = BTN_FILIPINO THEN "filipino"
    ELSE "none"

\* the mode a keyboard label selects, src/bot.py:1031-1074; "none" for any
\* other text
button_mode(text) ==
    IF text = BTN_LEARNER THEN "learner"
    ELSE IF text = BTN_FOREIGNER THEN "foreigner"
    ELSE IF text = BTN_KOREAN THEN "korean"
    ELSE IF text = BTN_JAPANESE THEN "japanese"
    ELSE IF text = BTN_FILIPINO THEN "filipino"
    ELSE "none"

\* the guide a keyboard label asks for, src/bot.py:1076-1105
button_info(text) ==
    IF text = BTN_GRAMMAR THEN "grammar_tools"
    ELSE IF text = BTN_OCR THEN "ocr_guide"
    ELSE IF text = BTN_FEEDBACK THEN "feedback_usage"
    ELSE IF text = BTN_HELP THEN "help"
    ELSE "none"

\* handle_message, src/bot.py:1012-1117
handle_message(u, text) ==
    LET modes0 == SetDefault(USER_MODES, u, "auto") IN
        /\ Idle
        /\ text # <<>>
        /\ Get(USER_STATS, u, 0) < MaxCount
        /\ USER_STATS' = Put(USER_STATS, u, Get(USER_STATS, u, 0) + 1)
        /\ IF button_mode(text) # "none"
           THEN /\ USER_MODES' = Put(modes0, u, button_mode(text))
                /\ last' = [Event("button", u, <<Msg("mode_button")>>)
                              EXCEPT !.args = <<text>>]
                /\ UNCHANGED users_file
           ELSE IF button_info(text) # "none"
           THEN /\ USER_MODES' = modes0
                /\ last' = [Event("button", u, <<Msg(button_info(text))>>)
                              EXCEPT !.args = <<text>>]
                /\ UNCHANGED users_file
           ELSE \E sv \in SaveResults(users_file, u), gw \in GwFor(client) :
                  LET r     == get_ai_response(modes0, client, u, text, gw)
                      reply == IF r.reply = <<>> THEN Msg("no_response")
                               ELSE r.reply
                  IN  /\ users_file' = sv.file
                      /\ USER_MODES' = r.modes
                      /\ last' = [Resolved("text", u, text, r,
                                           send_long_message(TRUE, reply))
                                    EXCEPT !.save = SaveTag(sv)]
        /\ UNCHANGED <<config, harness>>

\* str.strip() for the white space the model uses
IsSpace(c) == c \in {9, 10, 13, 32}

RECURSIVE LStrip(_)
LStrip(s) == IF s # <<>> /\ IsSpace(Head(s)) THEN LStrip(Tail(s)) ELSE s

RECURSIVE RStrip(_)
RStrip(s) ==
    IF s # <<>> /\ IsSpace(s[Len(s)]) THEN RStrip(SubSeq(s, 1, Len(s) - 1)) ELSE s

Strip(s) == RStrip(LStrip(s))

\* handle_photo, src/bot.py:918-1004.  download: whether get_file and
\* download_as_bytearray succeed; ocrOk: whether the vision call returns;
\* ocr: the content it returns
handle_photo(u) ==
    /\ Idle
    /\ IF ~client
       THEN /\ last' = Event("photo", u, <<Msg("missing_api_key")>>)
            /\ UNCHANGED <<USER_MODES, USER_STATS, users_file>>
       ELSE /\ Get(USER_STATS, u, 0) < MaxCount
            /\ USER_STATS' = Put(USER_STATS, u, Get(USER_STATS, u, 0) + 1)
            /\ \E download \in BOOLEAN :
               IF ~download
               THEN /\ last' = Event("photo", u, <<Msg("download_failed")>>)
                    /\ UNCHANGED <<USER_MODES, users_file>>
               ELSE \E ocrOk \in BOOLEAN :
               IF ~ocrOk
               THEN /\ last' = [Event("photo", u, <<Msg("reading_image"),
                                                    Msg("ocr_error")>>)
                                  EXCEPT !.calls = <<"VISION">>,
                                         !.outcomes = <<"error">>]
                    /\ UNCHANGED <<USER_MODES, users_file>>
               ELSE \E ocr \in OcrTexts :
               LET ocr_text == Strip(ocr) IN
               IF ocr_text = <<>>
               THEN /\ last' = [Event("photo", u, <<Msg("reading_image"),
                                                    Msg("no_text_found")>>)
                                  EXCEPT !.calls = <<"VISION">>,
                                         !.outcomes = <<"ok">>]
                    /\ UNCHANGED <<USER_MODES, users_file>>
               ELSE \E sv \in SaveResults(users_file, u), gw \in GwFor(client) :
                    LET modes0 == SetDefault(USER_MODES, u, "auto")
                        r      == get_ai_response(modes0, client, u, ocr_text, gw)
                        reply  == IF r.reply = <<>> THEN Msg("no_response")
                                  ELSE r.reply
                    IN  /\ users_file' = sv.file
                        /\ USER_MODES' = r.modes
                        /\ last' =
                             LET e == Resolved("photo", u, ocr_text, r, <<>>) IN
                             [e EXCEPT
                                !.sent = <<Msg("reading_image")>> \o
                                    (IF r.raised THEN <<>>
                                     ELSE send_long_message(TRUE,
                                              Msg("ocr_header") \o reply)),
                                !.calls = <<"VISION">> \o r.calls,
                                !.outcomes = <<"ok">> \o r.outcomes,
                                !.save = SaveTag(sv),
                                !.direct = 1]
    /\ UNCHANGED <<config, harness>>

-----------------------------------------------------------------------------
(* The handler specification *)

\* users.json as a deployment finds it: absent, or written by an earlier run
InitFiles == {FileAbsent} \cup {FileOf(SetToSeq(S)) : S \in SUBSET Users}

\* a deployment whose administrator is chat 1, with or without a Groq key;
\* SpecAdmin below takes the administrator commands through the other
\* settings of ADMIN_ID
Init ==
    /\ USER_MODES = EmptyDict
    /\ USER_STATS = EmptyDict
    /\ users_file \in InitFiles
    /\ client \in BOOLEAN
    /\ ADMIN_ID = 1
    /\ last = NoEvent
    /\ HarnessIdle

Next ==
    \/ \E u \in Users : start(u)
    \/ \E u \in Users, args \in ModeArgs : mode_command(u, args)
    \/ \E u \in Users : reset_command(u)
    \/ \E u \in Users, args \in QuickArgs : ko_command(u, args)
    \/ \E u \in Users, args \in QuickArgs : ja_command(u, args)
    \/ \E u \in Users, args \in QuickArgs : ph_command(u, args)
    \/ \E u \in Users, text \in MsgTexts : handle_message(u, text)
    \/ \E u \in Users : handle_photo(u)
    \/ \E u \in Users, args \in CmdArgs : kmgrammar_command(u, args)
    \/ \E u \in Users, args \in CmdArgs : enggrammar_command(u, args)
    \/ \E u \in Users, args \in CmdArgs : cngrammar_command(u, args)
    \/ \E u \in Users, args \in CmdArgs : explain_command(u, args)
    \/ \E u \in Users, args \in CmdArgs : feedback_command(u, args)
    \/ \E u \in Users, args \in CmdArgs : broadcast(u, args)
    \/ \E u \in Users : stats_command(u)
    \/ send_scheduled_alert
    \/ next_update

Spec == Init /\ [][Next]_vars

-----------------------------------------------------------------------------
(* detect_mode_from_text on its own *)

\* the handler state of the specifications of single functions
HandlersAtRest ==
    /\ USER_MODES = EmptyDict
    /\ USER_STATS = EmptyDict
    /\ client = TRUE
    /\ ADMIN_ID = NoAdmin
    /\ last = NoEvent
    /\ LoopIdle

\* code points at and next to the ends of the Khmer and CJK ranges, the
\* letters "a" and "Z", the digit "1" and the letter e-acute
Alphabet == {6015, 6016, 6143, 6144, 19967, 19968, 40959, 40960, 97, 90, 49, 233}

DetectTexts == UNION {[1..n -> Alphabet] : n \in 0..MaxTextLen}

InitDetect ==
    /\ HandlersAtRest
    /\ users_file = FileAbsent
    /\ hpc = "call"
    /\ dText \in DetectTexts /\ dOut = "none"
    /\ cText = <<>> /\ cOut = <<>>
    /\ saves = <<>>

detect_step ==
    /\ hpc = "call"
    /\ dOut' = detect_mode_from_text(dText)
    /\ hpc' = "done"
    /\ UNCHANGED <<USER_MODES, USER_STATS, users_file, config, last,
                   dText, cText, cOut, saves, loopvars>>

NextDetect == detect_step

SpecDetect == InitDetect /\ [][NextDetect]_vars

-----------------------------------------------------------------------------
(* send_long_message on its own *)

\* lengths 0..3 and the lengths within 3 of each multiple of max_len
ChunkLens ==
    0..3 \cup {k * max_len + d : k \in 1..MaxChunks, d \in -3..3}

\* a text of n characters in which character i is i modulo p
TextOf(n, p) == [i \in 1..n |-> i % p]

\* every caller has returned before the call when update.message is absent
\* (src/bot.py:788, 927, 1014), so the message is present here
InitChunk ==
    /\ HandlersAtRest
    /\ users_file = FileAbsent
    /\ hpc = "call"
    /\ cText \in {TextOf(n, p) : n \in ChunkLens, p \in {7, 11, max_len + 1}}
    /\ cOut = <<>>
    /\ dText = <<>> /\ dOut = "none"
    /\ saves = <<>>

chunk_step ==
    /\ hpc = "call"
    /\ cOut' = send_long_message(TRUE, cText)
    /\ hpc' = "done"
    /\ UNCHANGED <<USER_MODES, USER_STATS, users_file, config, last,
                   dText, dOut, cText, saves, loopvars>>

NextChunk == chunk_step

SpecChunk == InitChunk /\ [][NextChunk]_vars

-----------------------------------------------------------------------------
(* save_user_to_file on its own *)

\* users.json as a call can find it: absent, unparsable, or any array of
\* at most MaxFileLen identifiers, repeated ones included
RegistryFiles ==
    {FileAbsent, FileCorrupt}
    \cup {FileOf(seq) : seq \in UNION {[1..n -> Users] : n \in 0..MaxFileLen}}

InitRegistry ==
    /\ HandlersAtRest
    /\ users_file \in RegistryFiles
    /\ hpc = "call"
    /\ saves = <<>>
    /\ dText = <<>> /\ dOut = "none"
    /\ cText = <<>> /\ cOut = <<>>

\* one call of save_user_to_file; saves keeps the last two calls, each with
\* the file it found and the set its load_users() returned
register(chat_id, readOk, wr) ==
    LET sv  == save_user_to_file(users_file, chat_id, readOk, wr)
        rec == [id |-> chat_id, readOk |-> readOk, wr |-> wr,
                wrote |-> sv.wrote, before |-> PersistedSet(users_file),
                after |-> PersistedSet(sv.file),
                file0 |-> users_file,
                loaded |-> load_users(users_file, readOk)]
    IN  /\ hpc = "call"
        /\ users_file' = sv.file
        /\ saves' = IF Len(saves) < 2 THEN Append(saves, rec)
                    ELSE <<saves[2], rec>>
        /\ UNCHANGED <<USER_MODES, USER_STATS, config, last,
                       hpc, dText, dOut, cText, cOut, loopvars>>

NextRegistry ==
    \E chat_id \in Users, readOk \in BOOLEAN, wr \in WriteOutcomes :
        register(chat_id, readOk, wr)

SpecRegistry == InitRegistry /\ [][NextRegistry]_vars

-----------------------------------------------------------------------------
(* The administrator commands and the scheduled alert on their own *)

\* ADMIN_ID as a deployment sets it: not set (or not a number), chat 1,
\* chat 2
Admins == {NoAdmin, 1, 2}

\* chats registered by this run or an earlier one
Recipients == 1..MaxRecipients

\* users.json when a run starts: absent, unparsable, or any set of
\* recipients written by save_user_to_file
AdminFiles ==
    {FileAbsent, FileCorrupt}
    \cup {FileOf(SetToSeq(S)) : S \in SUBSET Recipients}

\* USER_MODES and USER_STATS when the command arrives: both empty, or chat 1
\* in korean mode with two messages counted and chat 2 started
AdminTables ==
    { [modes |-> EmptyDict, stats |-> EmptyDict],
      [modes |-> Put(Put(EmptyDict, 1, "korean"), 2, "auto"),
       stats |-> Put(EmptyDict, 1, 2)] }

InitAdmin ==
    /\ \E t \in AdminTables : USER_MODES = t.modes /\ USER_STATS = t.stats
    /\ users_file \in AdminFiles
    /\ client = TRUE
    /\ ADMIN_ID \in Admins
    /\ last = NoEvent
    /\ HarnessIdle

NextAdmin ==
    \/ \E u \in Users, args \in CmdArgs : broadcast(u, args)
    \/ \E u \in Users : stats_command(u)
    \/ \E u \in Users, args \in CmdArgs : feedback_command(u, args)
    \/ send_scheduled_alert
    \/ next_update

SpecAdmin == InitAdmin /\ [][NextAdmin]_vars

-----------------------------------------------------------------------------
(* The event loop: handlers and the job queue as coroutines *)

\* the updates the loop is followed through: a Latin message and
\* /broadcast with words from the administrator, /start from the other chat
LoopUpdates ==
    { [user |-> 1, kind |-> "text"], [user |-> 1, kind |-> "broadcast"],
      [user |-> 2, kind |-> "start"] }

\* users.json as the loop finds it: absent, or holding the administrator
LoopFiles == {FileAbsent, FileOf(<<1>>)}

\* the text of the message update
LoopText == <<72, 105>>

\* the write half of save_user_to_file, src/bot.py:329-335, given the set
\* its load_users call returned
store_users(file, users, chat_id, wr) ==
    IF chat_id \in users THEN file
    ELSE IF wr = "ok" THEN FileOf(SetToSeq(users \cup {chat_id}))
    ELSE IF wr = "open_fail" THEN file
    ELSE FileCorrupt

\* a plausible slip: save_user_to_file written as a coroutine that awaits
\* its file operations, Groq still called synchronously
HoldsLoop_save_awaits(pc) == pc = "in_gateway"

\* the places where a handler is inside synchronous code, so that the loop
\* runs nothing else: between the load and the store of save_user_to_file,
\* src/bot.py:328-333, and inside client.chat.completions.create,
\* src/bot.py:392-399, which is called without await
HoldsLoop(pc) == pc \in {"store", "in_gateway"}

\* a user sends an update; each update of LoopUpdates is sent once
receive(upd) ==
    /\ upd \notin inbox
    /\ [user |-> task.user, kind |-> task.kind] # upd
    /\ \A a \in answered : [user |-> a.user, kind |-> a.kind] # upd
    /\ inbox' = inbox \cup {upd}
    /\ UNCHANGED <<USER_MODES, USER_STATS, users_file, config, last,
                   hpc, dText, dOut, cText, cOut, saves,
                   task, job, lastrun, answered>>

\* the Application built at src/bot.py:1147 without concurrent_updates
\* awaits each handler before it takes the next update: the handler runs
\* from its entry to its first suspension.  start, src/bot.py:470-478, and
\* handle_message, src/bot.py:1012-1108, get as far as the load_users call
\* of save_user_to_file; broadcast, src/bot.py:705-728, as far as its first
\* send_message, or its report when the registry is empty
handler_begin(upd) ==
    /\ upd \in inbox
    /\ task = NoTask
    /\ inbox' = inbox \ {upd}
    /\ \E readOk \in BOOLEAN :
         LET users == load_users(users_file, readOk)
             t     == [NoTask EXCEPT !.user = upd.user, !.kind = upd.kind,
                                     !.loaded = users, !.file0 = users_file]
         IN  IF upd.kind = "start"
             THEN /\ task' = [t EXCEPT !.pc = "store"]
                  /\ UNCHANGED <<USER_MODES, USER_STATS>>
             ELSE IF upd.kind = "text"
             THEN /\ task' = [t EXCEPT !.pc = "store"]
                  /\ USER_STATS' = Put(USER_STATS, upd.user,
                                       Get(USER_STATS, upd.user, 0) + 1)
                  /\ USER_MODES' = SetDefault(USER_MODES, upd.user, "auto")
             ELSE /\ is_admin(upd.user)
                  /\ task' = [t EXCEPT !.todo = SetToSeq(users),
                                       !.pc = IF users = {} THEN "await_reply"
                                              ELSE "await_send",
                                       !.reply = Msg("broadcast_report")]
                  /\ UNCHANGED <<USER_MODES, USER_STATS>>
    /\ UNCHANGED <<users_file, config, last, hpc, dText, dOut, cText, cOut,
                   saves, job, lastrun, answered>>

\* the rest of save_user_to_file, src/bot.py:329-335, and the handler up to
\* its next await: reply_text in start, src/bot.py:479-501, and
\* send_chat_action in handle_message, src/bot.py:1109
save_store(wr) ==
    /\ task.pc = "store"
    /\ users_file' = store_users(users_file, task.loaded, task.user, wr)
    /\ IF task.kind = "start"
       THEN /\ USER_MODES' = SetDefault(USER_MODES, task.user, "auto")
            /\ task' = [task EXCEPT !.pc = "await_reply",
                                    !.reply = Msg("welcome")]
       ELSE /\ task' = [task EXCEPT !.pc = "await_typing"]
            /\ UNCHANGED USER_MODES
    /\ UNCHANGED <<USER_STATS, config, last, hpc, dText, dOut, cText, cOut,
                   saves, inbox, job, lastrun, answered>>

\* send_chat_action returns and handle_message goes on into
\* get_ai_response, src/bot.py:1111 and 407-428: the mode is resolved and
\* chat_with_system_prompt answers at once without a client, or else calls
\* client.chat.completions.create
typing_done ==
    /\ task.pc = "await_typing"
    /\ ~HoldsLoop(job.pc)
    /\ LET r == resolve_mode(USER_MODES, task.user, LoopText) IN
       /\ USER_MODES' = r.modes
       /\ task' = IF client THEN [task EXCEPT !.pc = "in_gateway"]
                  ELSE [task EXCEPT !.pc = "await_reply",
                                    !.reply = Msg("missing_api_key")]
    /\ UNCHANGED <<USER_STATS, users_file, config, last, hpc, dText, dOut,
                   cText, cOut, saves, inbox, job, lastrun, answered>>

\* client.chat.completions.create returns or raises, src/bot.py:392-404,
\* and handle_message goes on to send_long_message, src/bot.py:1112-1117
gateway_returns(gw) ==
    /\ task.pc = "in_gateway"
    /\ LET c == chat_with_system_prompt(client, prompt_for(USER_MODES[task.user]), gw)
       IN  task' = [task EXCEPT !.pc = "await_reply",
                                !.reply = IF c.reply = <<>> THEN Msg("no_response")
                                          ELSE c.reply]
    /\ UNCHANGED <<USER_MODES, USER_STATS, users_file, config, last, hpc,
                   dText, dOut, cText, cOut, saves, inbox, job, lastrun,
                   answered>>

\* a run that has ended, as lastrun keeps it
Ended(t) ==
    [kind |-> t.kind, loaded |-> t.loaded, attempts |-> t.attempts,
     file0 |-> t.file0, file_end |-> users_file]

\* the last reply_text of the handler returns and the handler ends:
\* send_long_message in handle_message, src/bot.py:1117, reply_text in
\* start, src/bot.py:481-501, and in broadcast, src/bot.py:735-737
reply_done ==
    /\ task.pc = "await_reply"
    /\ ~HoldsLoop(job.pc)
    /\ answered' = answered \cup
                     {[user |-> task.user, kind |-> task.kind,
                       sent |-> IF task.kind = "text"
                                THEN send_long_message(TRUE, task.reply)
                                ELSE <<task.reply>>]}
    /\ lastrun' = IF task.kind = "broadcast" THEN Ended(task) ELSE lastrun
    /\ task' = NoTask
    /\ UNCHANGED <<USER_MODES, USER_STATS, users_file, config, last, hpc,
                   dText, dOut, cText, cOut, saves, inbox, job>>

\* a plausible slip: the loop asks load_users again for who is left
next_recipient_rereads(t) ==
    [t EXCEPT !.todo = SetToSeq(load_users(users_file, TRUE)
                                  \ ({Head(t.todo)} \cup
                                     {t.attempts[i].to : i \in DOMAIN t.attempts}))]

\* for uid in users, src/bot.py:457 and 726: the iteration goes on over the
\* set load_users returned
next_recipient(t) == [t EXCEPT !.todo = Tail(t.todo)]

\* one turn of the loop of a run, src/bot.py:457-462 and 726-733:
\* send_message to the head of todo has returned or raised, and so has the
\* sleep after it
Turn(t, ok) ==
    [next_recipient(t) EXCEPT
        !.attempts = Append(t.attempts, [to |-> Head(t.todo), ok |-> ok])]

\* a turn of the loop of broadcast, src/bot.py:726-733, then the report
\* once the loop is over, src/bot.py:735-737
send_returns(ok) ==
    /\ task.pc = "await_send"
    /\ ~HoldsLoop(job.pc)
    /\ LET t == Turn(task, ok) IN
       task' = IF t.todo = <<>> THEN [t EXCEPT !.pc = "await_reply"] ELSE t
    /\ UNCHANGED <<USER_MODES, USER_STATS, users_file, config, last, hpc,
                   dText, dOut, cText, cOut, saves, inbox, job, lastrun,
                   answered>>

\* the job queue starts send_scheduled_alert, src/bot.py:451-457 and
\* 1179-1197, while no handler is inside synchronous code; one run at a time
alert_begin ==
    /\ job = NoTask
    /\ ~HoldsLoop(task.pc)
    /\ \E readOk \in BOOLEAN :
         LET users == load_users(users_file, readOk)
             t     == [NoTask EXCEPT !.kind = "alert", !.loaded = users,
                                     !.file0 = users_file,
                                     !.todo = SetToSeq(users),
                                     !.pc = "await_send"]
         IN  IF users = {}
             THEN job' = NoTask /\ lastrun' = Ended(t)
             ELSE job' = t /\ UNCHANGED lastrun
    /\ UNCHANGED <<USER_MODES, USER_STATS, users_file, config, last, hpc,
                   dText, dOut, cText, cOut, saves, inbox, task, answered>>

\* a turn of the loop of send_scheduled_alert, src/bot.py:457-462
alert_send_returns(ok) ==
    /\ job.pc = "await_send"
    /\ ~HoldsLoop(task.pc)
    /\ LET t == Turn(job, ok) IN
       IF t.todo = <<>>
       THEN job' = NoTask /\ lastrun' = Ended(t)
       ELSE job' = t /\ UNCHANGED lastrun
    /\ UNCHANGED <<USER_MODES, USER_STATS, users_file, config, last, hpc,
                   dText, dOut, cText, cOut, saves, inbox, task, answered>>

\* a deployment with a Groq key whose administrator is chat 1
InitLoop ==
    /\ USER_MODES = EmptyDict
    /\ USER_STATS = EmptyDict
    /\ users_file \in LoopFiles
    /\ client = TRUE
    /\ ADMIN_ID = 1
    /\ last = NoEvent
    /\ HarnessIdle

NextLoop ==
    \/ \E upd \in LoopUpdates : receive(upd)
    \/ \E upd \in LoopUpdates : handler_begin(upd)
    \/ \E wr \in WriteOutcomes : save_store(wr)
    \/ typing_done
    \/ \E gw \in GwOutcomes : gateway_returns(gw)
    \/ reply_done
    \/ \E ok \in BOOLEAN : send_returns(ok)
    \/ alert_begin
    \/ \E ok \in BOOLEAN : alert_send_returns(ok)

SpecLoop == InitLoop /\ [][NextLoop]_vars

\* the steps of a handler that the program takes by itself: the dispatcher
\* and the Telegram calls, which return; nothing makes Groq return
HandlerFairness ==
    /\ WF_vars(\E upd \in LoopUpdates : handler_begin(upd))
    /\ WF_vars(\E wr \in WriteOutcomes : save_store(wr))
    /\ WF_vars(typing_done)
    /\ WF_vars(reply_done)
    /\ WF_vars(\E ok \in BOOLEAN : send_returns(ok))

FairLoop == InitLoop /\ [][NextLoop]_vars /\ HandlerFairness

-----------------------------------------------------------------------------
(* Properties *)

\* the step resolves a message of chat u through get_ai_response
Resolves(u) == last'.user = u /\ last'.used # "none"

\* the step is /mode X sent by chat u, X being last'.args[1]
SetsMode(u) == last'.op = "mode" /\ last'.user = u /\ last'.args # <<>>

\* the step is an explicit mode change or a reset by chat u
ExplicitChange(u) == last'.user = u /\ last'.op \in {"mode", "button", "reset"}

\* C1: a resolution for a chat whose stored mode is auto or absent runs the
\* heuristic on the message, uses its answer and stores it; a resolution for
\* a chat with any other stored mode uses that mode whatever the message
\* holds and leaves it stored; and a stored mode other than auto changes only
\* in a reset or an explicit mode change of that chat.
C1_AutoLocksIn ==
    [][\A u \in Users :
        /\ Resolves(u) =>
             IF Get(USER_MODES, u, "auto") = "auto"
             THEN /\ last'.detected
                  /\ last'.used = last'.det
                  /\ Get(USER_MODES', u, "auto") = last'.det
             ELSE /\ ~last'.detected
                  /\ last'.used = USER_MODES[u]
                  /\ Get(USER_MODES', u, "auto") = USER_MODES[u]
        /\ ( /\ Get(USER_MODES, u, "auto") # "auto"
             /\ Get(USER_MODES', u, "auto") # USER_MODES[u] ) => ExplicitChange(u)
      ]_vars

\* C1 witness: a Latin message of a chat in auto mode has just been
\* resolved: the heuristic ran and foreigner is now the stored mode
C1_Witness ==
    \E u \in Users :
        /\ last.user = u /\ last.op = "text"
        /\ last.detected /\ last.det = "foreigner"
        /\ u \in DOMAIN USER_MODES /\ USER_MODES[u] = "foreigner"

\* C2: /mode foreigner stores foreigner; while foreigner is stored, every
\* resolution for the chat uses foreigner and the foreigner template and
\* leaves foreigner stored; and the stored foreigner changes only in a reset
\* or an explicit mode change of that chat.
C2_ForeignerPersists ==
    [][\A u \in Users :
        /\ ( /\ SetsMode(u)
             /\ LowerStr(last'.args[1]) = W_foreigner )
               => Get(USER_MODES', u, "auto") = "foreigner"
        /\ (Get(USER_MODES, u, "auto") = "foreigner" /\ Resolves(u)) =>
               /\ last'.used = "foreigner"
               /\ last'.prompt = "PROMPT_FOREIGNER"
               /\ Get(USER_MODES', u, "auto") = "foreigner"
        /\ ( /\ Get(USER_MODES, u, "auto") = "foreigner"
             /\ Get(USER_MODES', u, "auto") # "foreigner" ) => ExplicitChange(u)
      ]_vars

\* C2 witness: the first counted message of a chat is Khmer only, foreigner
\* was stored beforehand, and the foreigner template was used
C2_Witness ==
    \E u \in Users :
        /\ last.user = u /\ last.op = "text" /\ last.count0 <= 0
        /\ ~last.detected /\ last.det = "learner"
        /\ last.used = "foreigner" /\ last.prompt = "PROMPT_FOREIGNER"
        /\ USER_MODES[u] = "foreigner"

\* C3: when reset_command has run for a chat, the chat's stored mode is
\* auto and its message counter is 0.
C3_ResetClears ==
    last.op = "reset" =>
        /\ last.user \in DOMAIN USER_MODES /\ USER_MODES[last.user] = "auto"
        /\ last.user \in DOMAIN USER_STATS /\ USER_STATS[last.user] = 0

\* C3 witness: a reset of a chat whose counter stood at 2
C3_Witness ==
    /\ last.op = "reset" /\ last.count0 = 2
    /\ USER_STATS[last.user] = 0 /\ USER_MODES[last.user] = "auto"

\* C4: reset stores auto; auto stays stored until the chat's next resolution
\* or explicit mode change; and a resolution that finds auto stored runs the
\* heuristic on its own text and uses and stores that answer.
C4_ResetRedetects ==
    [][\A u \in Users :
        /\ (last'.op = "reset" /\ last'.user = u) =>
               Get(USER_MODES', u, "absent") = "auto"
        /\ ( /\ Get(USER_MODES, u, "absent") = "auto"
             /\ Get(USER_MODES', u, "absent") # "auto" ) =>
               (Resolves(u) \/ ExplicitChange(u))
        /\ (Get(USER_MODES, u, "absent") = "auto" /\ Resolves(u)) =>
               /\ last'.detected
               /\ last'.used = last'.det
               /\ last'.prompt = (IF last'.det = "foreigner" THEN "PROMPT_FOREIGNER"
                                  ELSE "PROMPT_KHMER_LEARNER")
               /\ Get(USER_MODES', u, "absent") = last'.det
      ]_vars

\* C4 witness: the counter stood at 0, so a reset came before and no message
\* was counted since; the message resolved now is Latin and foreigner is used
C4_Witness ==
    \E u \in Users :
        /\ last.user = u /\ last.op = "text" /\ last.count0 = 0
        /\ last.detected /\ last.det = "foreigner" /\ last.used = "foreigner"
        /\ USER_MODES[u] = "foreigner"

\* the mode each quick-translate command is tied to
QuickMode(op) ==
    IF op = "ko" THEN "korean" ELSE IF op = "ja" THEN "japanese" ELSE "filipino"

\* C5: when /ko, /ja or /ph has run with a non-empty argument, the caller's
\* stored mode is korean, japanese or filipino.
C5_QuickCommandSetsMode ==
    (last.op \in {"ko", "ja", "ph"} /\ last.sent # <<Msg("usage")>>) =>
        Get(USER_MODES, last.user, "absent") = QuickMode(last.op)

\* the names /mode recognises and the mode each one names
ModeNames ==
    { <<W_learner, "learner">>, <<W_khmer, "learner">>, <<W_student, "learner">>,
      <<W_foreigner, "foreigner">>, <<W_en, "foreigner">>, <<W_eng, "foreigner">>,
      <<W_english, "foreigner">>, <<W_korean, "korean">>, <<W_kr, "korean">>,
      <<W_japanese, "japanese">>, <<W_jp, "japanese">>,
      <<W_filipino, "filipino">>, <<W_tagalog, "filipino">>, <<W_ph, "filipino">>,
      <<W_auto, "auto">>, <<W_detect, "auto">> }

\* C6: /mode X with X, in lower case, outside the recognised names changes
\* no stored mode and no counter and sends the caller the unknown-mode
\* notice; with a recognised X the caller's stored mode becomes the mode X
\* names and no other chat's mode and no counter changes.
C6_SetModeValidates ==
    [][\A u \in Users :
        SetsMode(u) =>
            IF \E p \in ModeNames : p[1] = LowerStr(last'.args[1])
            THEN /\ \E p \in ModeNames :
                       /\ p[1] = LowerStr(last'.args[1])
                       /\ USER_MODES' = Put(USER_MODES, u, p[2])
                 /\ USER_STATS' = USER_STATS
            ELSE /\ USER_MODES' = USER_MODES
                 /\ USER_STATS' = USER_STATS
                 /\ last'.user = u
                 /\ last'.sent = <<Msg("unknown_mode")>>
      ]_vars

\* C6 witness: the unknown-mode notice was sent to a chat whose stored mode
\* is korean, while the other chat has a mode and a counter of its own
C6_Witness ==
    \E u \in Users, v \in Users :
        /\ u # v
        /\ last.op = "mode" /\ last.user = u
        /\ last.sent = <<Msg("unknown_mode")>>
        /\ Get(USER_MODES, u, "absent") = "korean"
        /\ Get(USER_MODES, v, "absent") = "japanese"
        /\ Get(USER_STATS, v, -1) = 1

\* C7: the result is learner when Khmer is present and neither Latin nor
\* CJK is, foreigner when Latin or CJK is present and Khmer is not, and
\* learner in every other case; every text has a result.
C7_DetectTable ==
    hpc = "done" =>
        LET k == has_khmer(dText)
            l == has_latin(dText)
            c == has_cjk(dText)
        IN  /\ dOut \in {"learner", "foreigner"}
            /\ (k /\ ~l /\ ~c) => dOut = "learner"
            /\ ((l \/ c) /\ ~k) => dOut = "foreigner"
            /\ (~(k /\ ~l /\ ~c) /\ ~((l \/ c) /\ ~k)) => dOut = "learner"

\* C7 witness: a text of CJK ideographs alone was classified foreigner
C7_Witness ==
    /\ hpc = "done" /\ dOut = "foreigner"
    /\ has_cjk(dText) /\ ~has_latin(dText) /\ ~has_khmer(dText)

RECURSIVE Concat(_)
Concat(msgs) == IF msgs = <<>> THEN <<>> ELSE Head(msgs) \o Concat(Tail(msgs))

\* C8: the messages sent concatenate, in order, to the text; each has at
\* most max_len characters; there are ceil(len/max_len) of them when the
\* text is not empty, and none when it is.
C8_ChunksPartitionText ==
    hpc = "done" =>
        /\ Concat(cOut) = cText
        /\ \A i \in 1..Len(cOut) : Len(cOut[i]) <= max_len
        /\ cText # <<>> => Len(cOut) = (Len(cText) + max_len - 1) \div max_len
        /\ cText = <<>> => cOut = <<>>

\* C8 witness: a text one character longer than two full messages went out
\* as three messages
C8_Witness ==
    /\ hpc = "done" /\ Len(cText) = 2 * max_len + 1
    /\ Len(cOut) = 3 /\ Len(cOut[3]) = 1

\* C9: when a text or photo update of a chat has been handled, the chat's
\* counter is one more than it was when the update arrived.
C9_EveryEventCounts ==
    last.op \in {"text", "button", "photo"} =>
        Get(USER_STATS, last.user, 0)
            = (IF last.count0 < 0 THEN 0 ELSE last.count0) + 1

Distinct(data) == {x \in Users : \E j \in 1..Len(data) : data[j] = x}

\* C11: load_users always returns a set; it is the empty set when the file
\* is absent, unreadable or unparsable, and the set of the distinct
\* identifiers of the array otherwise, repeated ones included once.
C11_LoadNeverRaises ==
    \A i \in 1..Len(saves) :
        LET r == saves[i] IN
        /\ r.loaded \in SUBSET Users
        /\ (r.file0.state # "ok" \/ ~r.readOk) => r.loaded = {}
        /\ (r.file0.state = "ok" /\ r.readOk) => r.loaded = Distinct(r.file0.data)

\* C11 witness: the array <<1, 2, 1>> was loaded as the two-element set
C11_Witness ==
    \E i \in 1..Len(saves) :
        /\ saves[i].file0 = FileOf(<<1, 2, 1>>) /\ saves[i].readOk
        /\ saves[i].loaded = {1, 2}

\* C12: when the write inside save_user_to_file fails, no exception leaves
\* the handler that called it, the handler still sends its reply, and the
\* persisted set is what it was before the call.
C12_WriteFailureIsContained ==
    [][last'.save = "failed" =>
          /\ ~last'.escaped
          /\ last'.sent # <<>>
          /\ PersistedSet(users_file') = PersistedSet(users_file)
      ]_vars

\* C13: a step never takes an identifier out of the persisted set.
C13_RegistryOnlyGrows ==
    [][PersistedSet(users_file) \subseteq PersistedSet(users_file')]_vars

\* the number of attempts of the run made to chat uid
AttemptsTo(uid) ==
    Cardinality({i \in 1..Len(last.attempts) : last.attempts[i].to = uid})

\* C14: a broadcast or a scheduled alert makes exactly one attempt to each
\* chat of the registry it loaded, whichever sends fail, makes none to any
\* other chat, and no exception leaves the run.
C14_OneAttemptEach ==
    last.op \in {"broadcast", "alert"} =>
        /\ ~last.escaped
        /\ \A uid \in last.loaded : AttemptsTo(uid) = 1
        /\ \A i \in 1..Len(last.attempts) : last.attempts[i].to \in last.loaded

\* C14 witness: a broadcast over three chats whose first send failed and
\* whose other two sends succeeded
C14_Witness ==
    /\ last.op = "broadcast" /\ last.loaded = {1, 2, 3}
    /\ Len(last.attempts) = 3
    /\ ~last.attempts[1].ok /\ last.attempts[2].ok /\ last.attempts[3].ok

\* the number of attempts of the run that succeeded (b = TRUE) or failed
Outcomes(b) ==
    Cardinality({i \in 1..Len(last.attempts) : last.attempts[i].ok = b})

\* C15: the report of a broadcast gives as sent the number of sends that
\* succeeded and as failed the number that raised, and the two add up to
\* the size of the registry loaded.
C15_ReportMatchesOutcomes ==
    (last.op = "broadcast" /\ last.report # <<>>) =>
        /\ last.sent = <<Msg("broadcast_report")>>
        /\ last.report = <<Outcomes(TRUE), Outcomes(FALSE)>>
        /\ last.report[1] + last.report[2] = Cardinality(last.loaded)

\* C15 witness: chats 1, 2 and 3, the send to chat 2 failed, 2 sent and 1
\* failed reported
C15_Witness ==
    /\ last.op = "broadcast" /\ last.loaded = {1, 2, 3}
    /\ \E i \in 1..3 : last.attempts[i] = [to |-> 2, ok |-> FALSE]
    /\ last.report = <<2, 1>>

\* C17: /broadcast and /stats from a chat that is not the configured
\* administrator, or with no administrator configured, send nothing to any
\* chat, read no registry, report no figures and change no state.
C17_AdminOnly ==
    [][( /\ last'.op \in {"broadcast", "stats"}
         /\ (ADMIN_ID = NoAdmin \/ last'.user # ADMIN_ID) ) =>
            /\ last'.sent = <<>> /\ last'.attempts = <<>>
            /\ last'.report = <<>> /\ last'.loaded = {}
            /\ UNCHANGED <<USER_MODES, USER_STATS, users_file, config>>
      ]_vars

\* C17 witness: with no administrator configured, /stats from a chat that
\* has a counter went unanswered while two chats are registered
C17_Witness ==
    /\ last.op = "stats" /\ ADMIN_ID = NoAdmin /\ last.sent = <<>>
    /\ last.user \in DOMAIN USER_STATS
    /\ PersistedSet(users_file) = {1, 2}

\* the last message sent for the update
LastSent == last.sent[Len(last.sent)]

\* the fixed strings a failed request is answered with: that of
\* chat_with_system_prompt, alone or under the header of a photo reply, and
\* that of the OCR request
ErrorReplies ==
    { Msg("error_connecting"), Msg("ocr_header") \o Msg("error_connecting"),
      Msg("ocr_error") }

\* C16: when a request to Groq made for an update fails, it is the last
\* request made for that update, the last message the chat gets is the fixed
\* error string, no message carries AI content, and no exception leaves the
\* handler.
C16_GatewayFailureContained ==
    \A i \in 1..Len(last.outcomes) :
        last.outcomes[i] = "error" =>
            /\ i = Len(last.outcomes) /\ Len(last.calls) = Len(last.outcomes)
            /\ ~last.escaped
            /\ last.sent # <<>> /\ LastSent \in ErrorReplies
            /\ \A j \in 1..Len(last.sent) :
                   \A k \in 1..Len(last.sent[j]) : last.sent[j][k] # "ai_content"

\* C16 witness: a photo whose text was read and whose translation request
\* failed: two requests, the error string under the photo header
C16_Witness ==
    /\ last.op = "photo" /\ last.outcomes = <<"ok", "error">>
    /\ Len(last.calls) = 2
    /\ LastSent = Msg("ocr_header") \o Msg("error_connecting")

\* C18: when an update of a chat has been handled and no registry write
\* failed, the chat is in the persisted registry.
C18_EveryEventRegisters ==
    (last.op # "none" /\ last.user \in Users /\ last.save # "failed") =>
        last.user \in PersistedSet(users_file)

\* the commands that ask for an argument
ArgumentOps ==
    {"kmgrammar", "enggrammar", "cngrammar", "explain", "ko", "ja", "ph",
     "feedback", "broadcast"}

\* the step sends the usage hint and does nothing else
UsageOnly ==
    /\ last'.sent = <<Msg("usage")>>
    /\ last'.calls = <<>> /\ last'.attempts = <<>>
    /\ UNCHANGED <<USER_MODES, USER_STATS, users_file>>

\* C19 as stated: each of these commands, given no argument, sends the usage
\* hint and nothing else, calls no gateway, delivers to no other chat and
\* changes no mode, counter or registry entry.
C19_EmptyArgumentUsageOnly ==
    [][(last'.op \in ArgumentOps /\ last'.args = <<>>) => UsageOnly]_vars

\* C19 amended: the same for the grammar, explain, quick-translate and
\* feedback commands and for /broadcast from the administrator; /broadcast
\* from any other chat sends nothing, the usage hint included, and changes
\* nothing.
C19_EmptyArgumentUsageOnlyForAdmin ==
    [][(last'.op \in ArgumentOps /\ last'.args = <<>>) =>
          IF last'.op = "broadcast"
                /\ (ADMIN_ID = NoAdmin \/ last'.user # ADMIN_ID)
          THEN /\ last'.sent = <<>>
               /\ last'.calls = <<>> /\ last'.attempts = <<>>
               /\ UNCHANGED <<USER_MODES, USER_STATS, users_file>>
          ELSE UsageOnly
      ]_vars

\* C19 witness: /broadcast without words from the administrator, two chats
\* registered: the usage hint alone, no delivery
C19_Witness ==
    /\ last.op = "broadcast" /\ last.user = ADMIN_ID /\ last.args = <<>>
    /\ last.sent = <<Msg("usage")>> /\ last.attempts = <<>>
    /\ PersistedSet(users_file) = {1, 2}

\* the template of each grammar command and of /explain
OwnTemplate(op) ==
    IF op = "kmgrammar" THEN "PROMPT_KM_GRAMMAR"
    ELSE IF op = "enggrammar" THEN "PROMPT_EN_GRAMMAR"
    ELSE IF op = "cngrammar" THEN "PROMPT_CN_GRAMMAR"
    ELSE "PROMPT_EXPLAIN"

\* C20: a grammar command or /explain runs no heuristic and resolves no
\* mode, sends Groq no template but its own, sends it that one when it has
\* words and a client, and leaves every stored mode and counter as it was.
C20_GrammarBypassesMode ==
    [][last'.op \in {"kmgrammar", "enggrammar", "cngrammar", "explain"} =>
          /\ ~last'.detected /\ last'.used = "none"
          /\ \A i \in 1..Len(last'.calls) : last'.calls[i] = OwnTemplate(last'.op)
          /\ (last'.args # <<>> /\ client) => last'.calls = <<OwnTemplate(last'.op)>>
          /\ USER_MODES' = USER_MODES /\ USER_STATS' = USER_STATS
      ]_vars

\* C20 witness: /explain with words from a chat whose stored mode is auto
\* and whose counter is 1: the explain template went out, auto stays stored
C20_Witness ==
    /\ last.op = "explain" /\ last.calls = <<"PROMPT_EXPLAIN">>
    /\ Get(USER_MODES, last.user, "absent") = "auto"
    /\ Get(USER_STATS, last.user, 0) = 1

\* the six values a stored mode takes, src/bot.py:621-661 and 1031-1074
StoredModes ==
    {"auto", "learner", "foreigner", "korean", "japanese", "filipino"}

\* the modes with a template of their own in get_ai_response
TemplateOf ==
    [m \in StoredModes \ {"auto"} |->
        IF m = "learner" THEN "PROMPT_KHMER_LEARNER"
        ELSE IF m = "foreigner" THEN "PROMPT_FOREIGNER"
        ELSE IF m = "korean" THEN "PROMPT_KOREAN_LEARNER"
        ELSE IF m = "japanese" THEN "PROMPT_JAPANESE_LEARNER"
        ELSE "PROMPT_FILIPINO_LEARNER"]

\* C25: every stored mode is one of auto, learner, foreigner, korean,
\* japanese, filipino; and the mode a resolution used is one of the five
\* other than auto, the template chosen being that mode's own.
C25_ModesStayInTable ==
    /\ \A u \in DOMAIN USER_MODES : USER_MODES[u] \in StoredModes
    /\ last.used # "none" =>
         /\ last.used \in DOMAIN TemplateOf
         /\ last.prompt = TemplateOf[last.used]

\* C25 witness: a message was resolved in japanese mode, set by /mode jp,
\* while the other chat is stored as auto
C25_Witness ==
    /\ last.op = "text" /\ last.used = "japanese"
    /\ last.prompt = "PROMPT_JAPANESE_LEARNER"
    /\ \E v \in Users \ {last.user} : Get(USER_MODES, v, "absent") = "auto"

\* what the two tables hold for chat v, "absent" and -1 for no entry
Entry(modes, stats, v) == <<Get(modes, v, "absent"), Get(stats, v, -1)>>

\* C26: an update from one chat leaves the stored mode and the counter of
\* every other chat as they were, absent entries staying absent.
C26_OtherUsersUntouched ==
    [][last'.op \in {"mode", "reset", "button", "text", "photo", "start"} =>
          \A v \in Users \ {last'.user} :
              Entry(USER_MODES', USER_STATS', v) = Entry(USER_MODES, USER_STATS, v)
      ]_vars

\* C26 witness: chat 1 has just reset while chat 2 keeps korean and a
\* counter of 2
C26_Witness ==
    /\ last.op = "reset" /\ last.user = 1
    /\ Entry(USER_MODES, USER_STATS, 1) = <<"auto", 0>>
    /\ Entry(USER_MODES, USER_STATS, 2) = <<"korean", 2>>

\* the Groq call of the resolution did not answer: it raised, or there is
\* no client to ask
GatewayFailed(e) ==
    \/ ~client
    \/ e.calls # <<>> /\ e.outcomes[Len(e.outcomes)] = "error"

\* C27: when a message or a photo of a chat whose mode is auto or absent is
\* resolved and the Groq call fails or there is no client, the detected mode
\* is the chat's stored mode afterwards.
C27_LockInBeforeGateway ==
    [][\A u \in Users :
          ( /\ Resolves(u) /\ last'.op \in {"text", "photo"}
            /\ Get(USER_MODES, u, "auto") = "auto"
            /\ GatewayFailed(last') )
          => /\ u \in DOMAIN USER_MODES'
             /\ USER_MODES'[u] = last'.det
             /\ USER_MODES'[u] # "auto"
      ]_vars

\* C27 witness: a Latin message of a chat with no stored mode met a Groq
\* exception: the chat got the error text and is stored as foreigner
C27_Witness ==
    /\ last.op = "text" /\ last.detected /\ last.outcomes = <<"error">>
    /\ last.sent = <<Msg("error_connecting")>>
    /\ Get(USER_MODES, last.user, "absent") = "foreigner"

\* C28: /start leaves the stored mode of a chat that has one as it is and
\* gives auto to a chat that has none; and a message, a button or a photo
\* never turns a stored mode other than auto into auto.
C28_ArrivalKeepsMode ==
    [][\A u \in Users :
          /\ (last'.op = "start" /\ last'.user = u) =>
                IF u \in DOMAIN USER_MODES
                THEN USER_MODES' = USER_MODES
                ELSE USER_MODES' = Put(USER_MODES, u, "auto")
          /\ ( /\ last'.op \in {"start", "text", "button", "photo"}
               /\ last'.user = u
               /\ Get(USER_MODES, u, "auto") # "auto" )
             => Get(USER_MODES', u, "auto") # "auto"
      ]_vars

\* C28 witness: /start from a chat stored as filipino, which it still is,
\* next to a chat that has no entry
C28_Witness ==
    /\ last.op = "start"
    /\ Get(USER_MODES, last.user, "absent") = "filipino"
    /\ \E v \in Users : v \notin DOMAIN USER_MODES

\* the keyboard label of each of the three tutor modes
ButtonOf ==
    [m \in {"korean", "japanese", "filipino"} |->
        IF m = "korean" THEN BTN_KOREAN
        ELSE IF m = "japanese" THEN BTN_JAPANESE
        ELSE BTN_FILIPINO]

\* C29: a resolution that runs the heuristic stores learner or foreigner;
\* and a chat's stored mode becomes korean, japanese or filipino only in a
\* /mode command of that chat naming the mode or in that chat's press of
\* the mode's own keyboard button.
C29_TutorModesOnlyExplicit ==
    [][\A u \in Users :
          /\ (Resolves(u) /\ last'.detected) =>
                Get(USER_MODES', u, "auto") \in {"learner", "foreigner"}
          /\ \A m \in DOMAIN ButtonOf :
                ( /\ Get(USER_MODES', u, "auto") = m
                  /\ Get(USER_MODES, u, "auto") # m )
                => /\ last'.user = u
                   /\ \/ SetsMode(u) /\ <<LowerStr(last'.args[1]), m>> \in ModeNames
                      \/ last'.op = "button" /\ last'.args = <<ButtonOf[m]>>
      ]_vars

\* C29 witness: a photo of Chinese text from a chat in auto mode was resolved
\* to foreigner, while the other chat is stored as korean
C29_Witness ==
    /\ last.op = "photo" /\ last.detected /\ last.used = "foreigner"
    /\ \E v \in Users \ {last.user} : Get(USER_MODES, v, "absent") = "korean"


\* the handlers of updates: every op but the scheduled alert
Inbound(e) == e.op \notin {"none", "alert"}

\* the commands that hand a Groq reply to send_long_message
GatewayCommands == {"ko", "ja", "ph", "kmgrammar", "enggrammar", "cngrammar", "explain"}

\* C23 as the specification states it: every update ends having used
\* exactly one of the two output paths, send_long_message or a direct
\* reply, never both and never neither.
C23_ExactlyOnePath ==
    Inbound(last) => ((last.direct > 0) # (last.chunked > 0))

\* C23, amended: plain text uses send_long_message alone; a quick-translate,
\* grammar or explain command with words, and a photo whose text was read,
\* send one progress notice directly and then use send_long_message;
\* /broadcast and /stats from a chat that is not the administrator use
\* neither path; every other branch uses direct replies alone.
C23_PathsByBranch ==
    Inbound(last) =>
        IF last.op = "text"
        THEN last.direct = 0 /\ last.chunked = 1
        ELSE IF \/ last.op \in GatewayCommands /\ Join(last.args) # <<>>
                \/ last.op = "photo" /\ last.used # "none"
        THEN last.direct = 1 /\ last.chunked = 1
        ELSE IF last.op \in {"broadcast", "stats"} /\ ~is_admin(last.user)
        THEN last.direct = 0 /\ last.chunked = 0 /\ last.sent = <<>>
        ELSE last.direct >= 1 /\ last.chunked = 0

\* C23 witness: /kmgrammar with words has sent its progress notice directly
\* and the Groq reply through send_long_message
C23_Witness ==
    /\ last.op = "kmgrammar" /\ last.direct = 1 /\ last.chunked = 1
    /\ last.sent = <<Msg("checking"), Msg("ai_content")>>


\* the update registers a chat that users.json does not hold yet
RegistersNew(upd) ==
    upd.kind \in {"start", "text"} /\ upd.user \notin PersistedSet(users_file)

\* C21 as the specification states it: while the save_user_to_file call of
\* one update is between its load and its store for a chat the file does
\* not hold, the handler of a pending update that registers another new chat
\* can start its own load, so that the two cycles interleave.
C21_CyclesCanInterleave ==
    \A upd \in inbox :
        ( /\ task.pc = "store" /\ task.user \notin task.loaded
          /\ upd.user # task.user /\ RegistersNew(upd) )
        => ENABLED handler_begin(upd)

\* C21, amended: the load-modify-store cycles of save_user_to_file never
\* interleave.  While one is between its load and its store, users.json is
\* still as the load found it, no other handler is started and no job
\* takes a step; what comes next is the store of that same call.
C21_CyclesNeverInterleave ==
    [][task.pc = "store" =>
          /\ users_file = task.file0
          /\ task.loaded = load_users(task.file0, TRUE) \/ task.loaded = {}
          /\ inbox \subseteq inbox'
          /\ job' = job /\ lastrun' = lastrun /\ answered' = answered
          /\ \/ task' = task /\ users_file' = users_file
             \/ /\ task'.pc \in {"await_reply", "await_typing"}
                /\ task'.user = task.user /\ task'.kind = task.kind
                /\ \E wr \in WriteOutcomes :
                      users_file' = store_users(task.file0, task.loaded,
                                                task.user, wr)
      ]_vars

\* C21 witness: no users.json yet; the message of chat 1 is between the
\* load and the store of its registration, and /start of chat 2 is waiting
C21_Witness ==
    /\ task.pc = "store" /\ task.user = 1 /\ task.kind = "text"
    /\ task.file0 = FileAbsent /\ users_file = FileAbsent
    /\ [user |-> 2, kind |-> "start"] \in inbox

\* C22: while a handler is inside the Groq call, the handler of every
\* pending update of another chat can be started and the job queue can
\* start or continue a scheduled run.
C22_GatewayWaitYields ==
    task.pc = "in_gateway" =>
        /\ \A upd \in inbox : upd.user # task.user => ENABLED handler_begin(upd)
        /\ ENABLED (alert_begin \/ \E ok \in BOOLEAN : alert_send_returns(ok))

\* the sender of the update has been sent a message for it
Answered(upd) ==
    \E a \in answered : a.user = upd.user /\ a.kind = upd.kind /\ a.sent # <<>>

\* C24: every update that is sent is eventually answered with a message to
\* its sender, whether or not the Groq call returns.
C24_EveryEventAnswered ==
    \A upd \in LoopUpdates : (upd \in inbox) ~> Answered(upd)

\* the identifiers a run has tried, in order
Tried(t) == [i \in DOMAIN t.attempts |-> t.attempts[i].to]

\* the run has tried, or has still to try, each chat of its snapshot once
\* and no other chat
OnSnapshot(t) ==
    /\ t.loaded \subseteq PersistedSet(t.file0)
    /\ Range(Tried(t)) \cup Range(t.todo) = t.loaded
    /\ Len(t.attempts) + Len(t.todo) = Cardinality(t.loaded)

\* C30: a broadcast or alert run reaches the chats load_users gave it when
\* it started, each once: under way, the chats tried and those still to
\* try make up that set; once ended, the chats tried are that set, whatever
\* was registered in between.
C30_RunUsesSnapshot ==
    /\ job.kind = "alert" => OnSnapshot(job)
    /\ task.kind = "broadcast" => OnSnapshot(task)
    /\ lastrun.kind # "none" =>
         /\ lastrun.loaded \subseteq PersistedSet(lastrun.file0)
         /\ Range(Tried(lastrun)) = lastrun.loaded
         /\ Len(lastrun.attempts) = Cardinality(lastrun.loaded)

\* C30 witness: an alert run that loaded chat 1 alone has ended having
\* tried chat 1 alone, chat 2 having registered while it was under way
C30_Witness ==
    /\ lastrun.kind = "alert"
    /\ lastrun.file0 = FileOf(<<1>>) /\ lastrun.loaded = {1}
    /\ PersistedSet(lastrun.file_end) = {1, 2}
    /\ Tried(lastrun) = <<1>>


=============================================================================
